---- MODULE Spec2Model ----
(***************************************************************************)
(* A model of confman: a Config handle bound to a configuration directory, *)
(* its registry of default generators, the files it opens and tracks, and  *)
(* the Read / Write / Create accessors layered on os.OpenFile.             *)
(*                                                                         *)
(* The filesystem is the part of it the handle can see: whether the        *)
(* configuration directory exists and, per file name, the content and the  *)
(* creation mode of the file.  The mode recorded for a file is the perm    *)
(* argument handed to os.OpenFile (the kernel applies the umask to it).    *)
(* All calls are synchronous and single threaded (the package holds no     *)
(* goroutine), so every exported method is one atomic action.              *)
(***************************************************************************)
EXTENDS Integers, Sequences, FiniteSets, TLC

\* ------------------------------------------------------------------ bounds
\* os.File objects open or tracked at once.
MaxHandles == 2
\* Records in a value handed to WriteCsv.
MaxRecords == 2
\* Characters in a path handed to OpenSpecific.
MaxPathLen == 4

\* ------------------------------------------------------------------ inputs
Names == {"f", "g"}
\* Byte strings written by callers.
Data == { <<"a">>, <<"b", "b">> }
\* os.FileMode arguments are written in decimal: 420 is 0o644, 384 is 0o600.
\* Open flags of package os.
O_RDONLY == {"O_RDONLY"}
O_WRONLY == {"O_WRONLY"}
O_RDWR == {"O_RDWR"}
O_CREATE == {"O_CREATE"}
O_EXCL == {"O_EXCL"}
O_TRUNC == {"O_TRUNC"}

VARIABLES
    dirExists,  \* the directory c.path exists on disk
    files,      \* name -> the file c.child(name) on disk
    defaults,   \* c.defaults
    closers,    \* c.closers: the files the handle tracks, each open or closed
    openFiles,  \* how many files this handle's calls opened are open and not in c.closers
    held,       \* how many of those the caller holds (an Open call returned them)
    last,       \* the last call: its name, arguments and results
    arg,        \* OpenSpecific: the path argument
    dirs,       \* OpenSpecific: the directories on disk, as clean paths
    opened      \* OpenSpecific: the outcome of the call

vars == <<dirExists, files, defaults, closers, openFiles, held, last, arg, dirs, opened>>
confVars == <<dirExists, files, defaults, closers, openFiles, held, last>>
openVars == <<arg, dirs, opened>>

\* ------------------------------------------------------------- filesystem
Absent == [exists |-> FALSE, content |-> <<>>, perm |-> 0]
File(content, perm) == [exists |-> TRUE, content |-> content, perm |-> perm]

\* type fileDefault: f writes data and then returns nil (ok) or an error.
NoDefault == [set |-> FALSE, perm |-> 0, data |-> <<>>, ok |-> TRUE]
FileDefault(perm, data, ok) == [set |-> TRUE, perm |-> perm, data |-> data, ok |-> ok]

\* The state a method of Config works on: the disk and the Config's fields.
World ==
    [dir |-> dirExists, files |-> files, closers |-> closers,
     open |-> openFiles, held |-> held]

\* A method's result: the world it leaves, its error, the branch verifyExists
\* took and the value it returns.
Result(w, err, gate, ret) == [w |-> w, err |-> err, gate |-> gate, ret |-> ret]

\* Writing data through a file opened at offset 0.
WriteAt0(content, data) ==
    data \o SubSeq(content, Len(data) + 1, Len(content))

\* func (c *Config) OpenRaw: os.OpenFile(c.child(name), flag, perm).  A
\* successful call leaves one more file open.
OpenRaw(w, name, flag, perm) ==
    IF ~w.dir
    THEN Result(w, "ENOENT", "none", <<>>)
    ELSE IF ~w.files[name].exists
    THEN IF O_CREATE \subseteq flag
         THEN Result([w EXCEPT !.files[name] = File(<<>>, perm), !.open = @ + 1],
                     "nil", "none", <<>>)
         ELSE Result(w, "ENOENT", "none", <<>>)
    ELSE IF (O_CREATE \cup O_EXCL) \subseteq flag
    THEN Result(w, "EEXIST", "none", <<>>)
    ELSE Result([w EXCEPT !.files[name].content =
                              IF O_TRUNC \subseteq flag THEN <<>> ELSE @,
                          !.open = @ + 1],
                "nil", "none", <<>>)

\* func (c *Config) Exists: os.Stat(c.child(name)); ErrNotExist is false, nil.
Exists(w, name) == w.dir /\ w.files[name].exists

\* OpenCreate without O_EXCL: an existing file is opened, not refused.
OpenCreate_NoExcl(w, name, perm) ==
    OpenRaw(w, name, O_RDWR \cup O_CREATE, perm)

\* func (c *Config) OpenCreate.
OpenCreate(w, name, perm) ==
    OpenRaw(w, name, O_RDWR \cup O_CREATE \cup O_EXCL, perm)

\* (*os.File).Write to the file name, through a file just opened.
FileWrite(w, name, data) ==
    [w EXCEPT !.files[name].content = WriteAt0(@, data)]

\* defer x.Close() on the file the method opened.
DeferClose(w) == [w EXCEPT !.open = @ - 1]

\* verifyExists creating the file with perm 0, as the other opens pass it.
verifyExists_PermZero(w, defs, name) ==
    IF ~Exists(w, name)
    THEN IF defs[name].set
         THEN LET c == OpenCreate(w, name, 0) IN
              IF c.err # "nil"
              THEN Result(c.w, c.err, "createfailed", <<>>)
              ELSE Result(FileWrite(c.w, name, defs[name].data),
                          IF defs[name].ok THEN "nil" ELSE "generr",
                          "generated", <<>>)
         ELSE Result(w, "does not exist", "nodefault", <<>>)
    ELSE Result(w, "nil", "present", <<>>)

\* verifyExists creating an empty file when no default is registered.
verifyExists_CreatesMissing(w, defs, name) ==
    IF ~Exists(w, name)
    THEN LET c == OpenCreate(w, name, IF defs[name].set THEN defs[name].perm ELSE 420) IN
         IF c.err # "nil"
         THEN Result(c.w, c.err, "createfailed", <<>>)
         ELSE IF defs[name].set
         THEN Result(FileWrite(c.w, name, defs[name].data),
                     IF defs[name].ok THEN "nil" ELSE "generr",
                     "generated", <<>>)
         ELSE Result(c.w, "nil", "nodefault", <<>>)
    ELSE Result(w, "nil", "present", <<>>)

\* verifyExists dropping the generator's error.
verifyExists_DropsGenError(w, defs, name) ==
    IF ~Exists(w, name)
    THEN IF defs[name].set
         THEN LET c == OpenCreate(w, name, defs[name].perm) IN
              IF c.err # "nil"
              THEN Result(c.w, c.err, "createfailed", <<>>)
              ELSE Result(FileWrite(c.w, name, defs[name].data), "nil", "generated", <<>>)
         ELSE Result(w, "does not exist", "nodefault", <<>>)
    ELSE Result(w, "nil", "present", <<>>)

\* func (c *Config) verifyExists.  gate tells which branch was taken.  The
\* file OpenCreate returns stays open when the method returns.
verifyExists(w, defs, name) ==
    IF ~Exists(w, name)
    THEN IF defs[name].set
         THEN LET c == OpenCreate(w, name, defs[name].perm) IN
              IF c.err # "nil"
              THEN Result(c.w, c.err, "createfailed", <<>>)
              ELSE Result(FileWrite(c.w, name, defs[name].data),
                          IF defs[name].ok THEN "nil" ELSE "generr",
                          "generated", <<>>)
         ELSE Result(w, "does not exist", "nodefault", <<>>)
    ELSE Result(w, "nil", "present", <<>>)

\* func (c *Config) addCloser: the file the method opened joins c.closers.
addCloser(w) ==
    [w EXCEPT !.closers = Append(@, [open |-> TRUE]), !.open = @ - 1]

\* func (c *Config) OpenRead.
OpenRead(w, defs, name) ==
    LET v == verifyExists(w, defs, name) IN
    IF v.err # "nil"
    THEN v
    ELSE [OpenRaw(v.w, name, O_RDONLY, 0) EXCEPT !.gate = v.gate]

\* func (c *Config) OpenReadAuto.
OpenReadAuto(w, defs, name) ==
    LET r == OpenRead(w, defs, name) IN
    IF r.err # "nil" THEN r ELSE [r EXCEPT !.w = addCloser(r.w)]

\* func (c *Config) Read: io.ReadAll of the file.
Read(w, defs, name) ==
    LET fr == OpenRead(w, defs, name) IN
    IF fr.err # "nil"
    THEN fr
    ELSE Result(DeferClose(fr.w), "nil", fr.gate, fr.w.files[name].content)

\* func (c *Config) ReadString: string(b) keeps the bytes.
ReadString(w, defs, name) == Read(w, defs, name)

\* func (c *Config) ReadJson, ReadToml, ReadCsv, ReadXml, the codec left open:
\* the decoder's verdict on the content is dec, and the decoded value goes
\* to the caller's v.
ReadDecoded(w, defs, name, dec) ==
    LET r == OpenRead(w, defs, name) IN
    IF r.err # "nil"
    THEN r
    ELSE Result(DeferClose(r.w), dec, r.gate, <<>>)

\* OpenWrite without O_TRUNC.
OpenWrite_NoTrunc(w, defs, name) ==
    LET v == verifyExists(w, defs, name) IN
    IF v.err # "nil"
    THEN v
    ELSE [OpenRaw(v.w, name, O_WRONLY, 0) EXCEPT !.gate = v.gate]

\* func (c *Config) OpenWrite.
OpenWrite(w, defs, name) ==
    LET v == verifyExists(w, defs, name) IN
    IF v.err # "nil"
    THEN v
    ELSE [OpenRaw(v.w, name, O_WRONLY \cup O_TRUNC, 0) EXCEPT !.gate = v.gate]

\* func (c *Config) OpenWriteAuto.
OpenWriteAuto(w, defs, name) ==
    LET r == OpenWrite(w, defs, name) IN
    IF r.err # "nil" THEN r ELSE [r EXCEPT !.w = addCloser(r.w)]

\* func (c *Config) Write.
Write(w, defs, name, data) ==
    LET o == OpenWrite(w, defs, name) IN
    IF o.err # "nil"
    THEN o
    ELSE Result(DeferClose(FileWrite(o.w, name, data)), "nil", o.gate, <<>>)

\* func (c *Config) WriteString: []byte(str) keeps the bytes.
WriteString(w, defs, name, str) == Write(w, defs, name, str)

\* func (c *Config) WriteJson, WriteToml, WriteCsv, WriteXml, the codec left
\* open: the encoder writes enc.bytes and returns enc.err.
WriteEncoded(w, defs, name, enc) ==
    LET o == OpenWrite(w, defs, name) IN
    IF o.err # "nil"
    THEN o
    ELSE Result(DeferClose(FileWrite(o.w, name, enc.bytes)), enc.err, o.gate, <<>>)

\* func (c *Config) OpenCreateAuto.
OpenCreateAuto(w, name, perm) ==
    LET r == OpenCreate(w, name, perm) IN
    IF r.err # "nil" THEN r ELSE [r EXCEPT !.w = addCloser(r.w)]

\* func (c *Config) Create.
Create(w, name, data, perm) ==
    LET o == OpenCreate(w, name, perm) IN
    IF o.err # "nil"
    THEN o
    ELSE Result(DeferClose(FileWrite(o.w, name, data)), "nil", "none", <<>>)

\* func (c *Config) CreateString.
CreateString(w, name, str, perm) == Create(w, name, str, perm)

\* func (c *Config) CreateJson, CreateToml, CreateCsv, CreateXml, the codec
\* left open.
CreateEncoded(w, name, enc, perm) ==
    LET o == OpenCreate(w, name, perm) IN
    IF o.err # "nil"
    THEN o
    ELSE Result(DeferClose(FileWrite(o.w, name, enc.bytes)), enc.err, "none", <<>>)

\* (*os.File).Close on the i-th tracked file: ErrClosed when already closed.
FileClose(w, i) ==
    IF w.closers[i].open
    THEN Result([w EXCEPT !.closers[i].open = FALSE], "nil", "none", <<>>)
    ELSE Result(w, "ErrClosed", "none", <<>>)

\* The loop of Close returning at the first close that fails.
RECURSIVE CloseFrom_StopsAtError(_, _, _)
CloseFrom_StopsAtError(w, i, errs) ==
    IF i > Len(w.closers)
    THEN Result(w, "nil", "none", errs)
    ELSE LET c == FileClose(w, i) IN
         IF c.err # "nil"
         THEN Result(c.w, "nil", "none", Append(errs, c.err))
         ELSE CloseFrom_StopsAtError(c.w, i + 1, errs)

\* func (c *Config) Close: the loop over c.closers from its i-th element, errs
\* being the errors collected so far.
RECURSIVE CloseFrom(_, _, _)
CloseFrom(w, i, errs) ==
    IF i > Len(w.closers)
    THEN Result(w, "nil", "none", errs)
    ELSE LET c == FileClose(w, i) IN
         CloseFrom(c.w, i + 1, IF c.err # "nil" THEN Append(errs, c.err) ELSE errs)

\* func (c *Config) Close.
Close(w) == CloseFrom(w, 1, <<>>)

\* os.RemoveAll(c.path): the directory and all it holds; nil also when the
\* directory is not there.  Open files stay open.
RemoveAll(w) ==
    [w EXCEPT !.dir = FALSE, !.files = [n \in Names |-> Absent]]

\* func (c *Config) Delete.
Delete(w) == Result(RemoveAll(w), "nil", "none", <<>>)

\* func (c *Config) DeleteFile.
DeleteFile(w, name) == Result(RemoveAll(w), "nil", "none", <<>>)

\* func (c *Config) MkdirAll, for a subdirectory name that is no file name of
\* the model: os.MkdirAll makes c.path too when it is missing.
MkdirAll(w) == Result([w EXCEPT !.dir = TRUE], "nil", "none", <<>>)

\* DefaultFunc without the check: a second registration replaces the first.
DefaultFunc_Overwrites(defs, name, perm, data, ok) ==
    [defs |-> [defs EXCEPT ![name] = FileDefault(perm, data, ok)], err |-> "nil"]

\* func (c *Config) DefaultFunc: panics when name has a default.
DefaultFunc(defs, name, perm, data, ok) ==
    IF defs[name].set
    THEN [defs |-> defs, err |-> "panic"]
    ELSE [defs |-> [defs EXCEPT ![name] = FileDefault(perm, data, ok)], err |-> "nil"]

\* func (c *Config) Default: the generator writes data and returns Write's error.
Default(defs, name, perm, data) == DefaultFunc(defs, name, perm, data, TRUE)

\* func (c *Config) DefaultString.
DefaultString(defs, name, perm, str) == Default(defs, name, perm, str)

\* ------------------------------------------------------------------ state
NoCall == [op |-> "none", name |-> "", err |-> "nil", gate |-> "none",
           arg |-> <<>>, ret |-> <<>>]
Call(op, name, err, gate, a, ret) ==
    [op |-> op, name |-> name, err |-> err, gate |-> gate, arg |-> a, ret |-> ret]

\* No OpenSpecific call was made.
NotOpened == [result |-> "none", path |-> <<>>]

\* After OpenSpecific on a directory that exists or was just made: an empty
\* registry, nothing tracked.
Init ==
    /\ dirExists = TRUE
    /\ files = [n \in Names |-> Absent]
    /\ defaults = [n \in Names |-> NoDefault]
    /\ closers = <<>>
    /\ openFiles = 0
    /\ held = 0
    /\ last = NoCall
    /\ arg = <<>>
    /\ dirs = {}
    /\ opened = NotOpened

\* ---------------------------------------------------------------- actions
\* A call of a method that works on the disk and the Config's files.
Returns(op, name, a, r) ==
    /\ Len(r.w.closers) + r.w.open <= MaxHandles
    /\ dirExists' = r.w.dir
    /\ files' = r.w.files
    /\ closers' = r.w.closers
    /\ openFiles' = r.w.open
    /\ held' = r.w.held
    /\ last' = Call(op, name, r.err, r.gate, a, r.ret)
    /\ UNCHANGED <<defaults, openVars>>

\* A call that returns the file it opened to the caller.
ReturnsFile(op, name, r) ==
    Returns(op, name, <<>>, IF r.err = "nil" THEN [r EXCEPT !.w.held = @ + 1] ELSE r)

\* A call of a registration method.
Registers(op, name, r) ==
    /\ defaults' = r.defs
    /\ last' = Call(op, name, r.err, "none", <<>>, <<>>)
    /\ UNCHANGED <<dirExists, files, closers, openFiles, held, openVars>>

Call_DefaultFunc(name, perm, data, ok) ==
    Registers("DefaultFunc", name, DefaultFunc(defaults, name, perm, data, ok))
Call_Default(name, perm, data) ==
    Registers("Default", name, Default(defaults, name, perm, data))
Call_DefaultString(name, perm, str) ==
    Registers("DefaultString", name, DefaultString(defaults, name, perm, str))

Call_OpenRead(name) == ReturnsFile("OpenRead", name, OpenRead(World, defaults, name))
Call_OpenReadAuto(name) ==
    Returns("OpenReadAuto", name, <<>>, OpenReadAuto(World, defaults, name))
Call_Read(name) == Returns("Read", name, <<>>, Read(World, defaults, name))
Call_ReadString(name) == Returns("ReadString", name, <<>>, ReadString(World, defaults, name))
Call_ReadDecoded(name, dec) ==
    Returns("ReadDecoded", name, <<>>, ReadDecoded(World, defaults, name, dec))

Call_OpenWrite(name) == ReturnsFile("OpenWrite", name, OpenWrite(World, defaults, name))
Call_OpenWriteAuto(name) ==
    Returns("OpenWriteAuto", name, <<>>, OpenWriteAuto(World, defaults, name))
Call_Write(name, data) == Returns("Write", name, data, Write(World, defaults, name, data))
Call_WriteString(name, str) ==
    Returns("WriteString", name, str, WriteString(World, defaults, name, str))
Call_WriteEncoded(name, enc) ==
    Returns("WriteEncoded", name, enc.bytes, WriteEncoded(World, defaults, name, enc))

Call_OpenCreate(name, perm) == ReturnsFile("OpenCreate", name, OpenCreate(World, name, perm))
Call_OpenCreateAuto(name, perm) ==
    Returns("OpenCreateAuto", name, <<>>, OpenCreateAuto(World, name, perm))
Call_Create(name, data, perm) == Returns("Create", name, <<>>, Create(World, name, data, perm))
Call_CreateString(name, str, perm) ==
    Returns("CreateString", name, <<>>, CreateString(World, name, str, perm))
Call_CreateEncoded(name, enc, perm) ==
    Returns("CreateEncoded", name, <<>>, CreateEncoded(World, name, enc, perm))

Call_Close == Returns("Close", "", <<>>, Close(World))
Call_Delete == Returns("Delete", "", <<>>, Delete(World))
Call_DeleteFile(name) == Returns("DeleteFile", name, <<>>, DeleteFile(World, name))
Call_MkdirAll == Returns("MkdirAll", "", <<>>, MkdirAll(World))

\* The caller closes a file an Auto call returned to it: the file stays in
\* c.closers.
Call_FileCloseTracked(i) ==
    /\ i \in 1..Len(closers)
    /\ closers[i].open
    /\ Returns("File.Close", "", <<>>, FileClose(World, i))

\* The caller closes a file OpenRead, OpenWrite or OpenCreate returned to it.
Call_FileClose ==
    /\ held > 0
    /\ Returns("File.Close", "", <<>>,
               Result([World EXCEPT !.open = @ - 1, !.held = @ - 1], "nil", "none", <<>>))

\* The generators of the model: one that writes its output (mode 0o644), one
\* that writes part of it and fails (mode 0o600).
Generators == { FileDefault(420, <<"b", "b">>, TRUE), FileDefault(384, <<"b">>, FALSE) }
\* The codecs' verdicts: an encoder's output and error, a decoder's error.
Encodings == { [bytes |-> <<"a">>, err |-> "nil"], [bytes |-> <<>>, err |-> "codec error"] }
Decodings == {"nil", "codec error"}

Registration ==
    \/ \E n \in Names, g \in Generators : Call_DefaultFunc(n, g.perm, g.data, g.ok)
    \/ \E n \in Names : Call_Default(n, 420, <<"b", "b">>)
    \/ \E n \in Names : Call_DefaultString(n, 420, <<"b", "b">>)

ReadFamily ==
    \/ \E n \in Names : Call_OpenRead(n)
    \/ \E n \in Names : Call_OpenReadAuto(n)
    \/ \E n \in Names : Call_Read(n)
    \/ \E n \in Names : Call_ReadString(n)
    \/ \E n \in Names, dec \in Decodings : Call_ReadDecoded(n, dec)

WriteFamily ==
    \/ \E n \in Names : Call_OpenWrite(n)
    \/ \E n \in Names : Call_OpenWriteAuto(n)
    \/ \E n \in Names : Call_Write(n, <<"a">>)
    \/ \E n \in Names : Call_WriteString(n, <<"a">>)
    \/ \E n \in Names, enc \in Encodings : Call_WriteEncoded(n, enc)

CreateFamily ==
    \/ \E n \in Names : Call_OpenCreate(n, 420)
    \/ \E n \in Names : Call_OpenCreateAuto(n, 420)
    \/ \E n \in Names : Call_Create(n, <<"a">>, 420)
    \/ \E n \in Names : Call_CreateString(n, <<"a">>, 420)
    \/ \E n \in Names, enc \in Encodings : Call_CreateEncoded(n, enc, 420)

Closing ==
    \/ \E i \in 1..MaxHandles : Call_FileCloseTracked(i)
    \/ Call_FileClose
    \/ Call_Close

Removal ==
    \/ Call_Delete
    \/ \E n \in Names : Call_DeleteFile(n)
    \/ Call_MkdirAll

Next == Registration \/ ReadFamily \/ WriteFamily \/ CreateFamily \/ Closing \/ Removal

Spec == Init /\ [][Next]_vars
\* -------------------------------------------------------------------- CSV
\* encoding/csv on fields that need no quoting (no comma, quote, newline or
\* leading space): a record is its fields joined by commas and a newline.
Comma == ","
Newline == "\n"

RECURSIVE JoinFields(_)
JoinFields(record) ==
    IF Len(record) = 0 THEN <<>>
    ELSE IF Len(record) = 1 THEN record[1]
    ELSE record[1] \o <<Comma>> \o JoinFields(Tail(record))

\* csv.Writer.WriteAll: Write of each record, then Flush.
RECURSIVE CsvEncode(_)
CsvEncode(records) ==
    IF Len(records) = 0 THEN <<>>
    ELSE JoinFields(records[1]) \o <<Newline>> \o CsvEncode(Tail(records))

\* The pieces of text between the occurrences of sep.
RECURSIVE SplitOn(_, _)
SplitOn(text, sep) ==
    IF \A i \in 1..Len(text) : text[i] # sep
    THEN <<text>>
    ELSE LET i == CHOOSE k \in 1..Len(text) :
                      text[k] = sep /\ \A j \in 1..(k - 1) : text[j] # sep
         IN  <<SubSeq(text, 1, i - 1)>> \o SplitOn(SubSeq(text, i + 1, Len(text)), sep)

\* csv.Reader.readRecord skips empty lines; a line is split at the commas.
RECURSIVE ParseLines(_)
ParseLines(lines) ==
    IF Len(lines) = 0 THEN <<>>
    ELSE IF Len(lines[1]) = 0 THEN ParseLines(Tail(lines))
    ELSE <<SplitOn(lines[1], Comma)>> \o ParseLines(Tail(lines))

\* csv.Reader.ReadAll with FieldsPerRecord = 0: every record must have the
\* field count of the first; otherwise nil and ErrFieldCount.
CsvDecode(content) ==
    LET records == ParseLines(SplitOn(content, Newline)) IN
    IF \E i \in 1..Len(records) : Len(records[i]) # Len(records[1])
    THEN [records |-> <<>>, err |-> "ErrFieldCount"]
    ELSE [records |-> records, err |-> "nil"]

\* func (c *Config) WriteCsv.
WriteCsv(w, defs, name, records) ==
    LET o == OpenWrite(w, defs, name) IN
    IF o.err # "nil"
    THEN o
    ELSE Result(DeferClose(FileWrite(o.w, name, CsvEncode(records))), "nil", o.gate, <<>>)

\* func (c *Config) ReadCsv.
ReadCsv(w, defs, name) ==
    LET r == OpenRead(w, defs, name) IN
    IF r.err # "nil"
    THEN r
    ELSE LET d == CsvDecode(r.w.files[name].content) IN
         Result(DeferClose(r.w), d.err, r.gate, d.records)

Call_WriteCsv(name, records) ==
    Returns("WriteCsv", name, records, WriteCsv(World, defaults, name, records))
Call_ReadCsv(name) == Returns("ReadCsv", name, <<>>, ReadCsv(World, defaults, name))

\* The records and values handed to WriteCsv.
CsvRecords == { << <<>> >>, << <<"a">> >>, << <<"a">>, <<>> >> }
CsvValues == UNION { [1..k -> CsvRecords] : k \in 0..MaxRecords }

\* The whole-buffer and CSV accessors, on files that come from a default.
NextCodec ==
    \/ \E n \in Names : Call_DefaultString(n, 420, <<"b", "b">>)
    \/ \E n \in Names, d \in Data : Call_Write(n, d)
    \/ \E n \in Names, d \in Data : Call_WriteString(n, d)
    \/ \E n \in Names : Call_Read(n)
    \/ \E n \in Names : Call_ReadString(n)
    \/ \E n \in Names, v \in CsvValues : Call_WriteCsv(n, v)
    \/ \E n \in Names : Call_ReadCsv(n)

SpecCodec == Init /\ [][NextCodec]_vars

\* ----------------------------------------------------------- OpenSpecific
PathChars == {"a", ".", "/"}
Paths == UNION { [1..k -> PathChars] : k \in 0..MaxPathLen }
Dot == <<".">>
DotDot == <<".", ".">>
Slash == <<"/">>

\* The elements of a path joined by separators.
RECURSIVE JoinElems(_)
JoinElems(elems) ==
    IF Len(elems) = 0 THEN <<>>
    ELSE IF Len(elems) = 1 THEN elems[1]
    ELSE elems[1] \o Slash \o JoinElems(Tail(elems))

\* filepath.Clean, element by element: out holds the elements kept so far.
RECURSIVE CleanElems(_, _, _)
CleanElems(elems, out, rooted) ==
    IF Len(elems) = 0 THEN out
    ELSE LET e == elems[1] IN
         IF e = <<>> \/ e = Dot
         THEN CleanElems(Tail(elems), out, rooted)
         ELSE IF e = DotDot
         THEN IF Len(out) > 0 /\ out[Len(out)] # DotDot
              THEN CleanElems(Tail(elems), SubSeq(out, 1, Len(out) - 1), rooted)
              ELSE IF rooted
              THEN CleanElems(Tail(elems), out, rooted)
              ELSE CleanElems(Tail(elems), Append(out, e), rooted)
         ELSE CleanElems(Tail(elems), Append(out, e), rooted)

\* filepath.Clean: the shortest equivalent path; "." for the empty path and
\* for a path that cleans to nothing.
Clean(path) ==
    IF path = <<>> THEN Dot
    ELSE LET rooted == path[1] = "/"
             kept == JoinElems(CleanElems(SplitOn(path, "/"), <<>>, rooted))
         IN  IF rooted THEN Slash \o kept
             ELSE IF kept = <<>> THEN Dot ELSE kept

\* The directory a clean path lies in (filepath.Dir).
Parent(path) ==
    LET elems == SplitOn(path, "/") IN
    IF path = Slash \/ path = Dot THEN path
    ELSE IF path[1] = "/"
    THEN Clean(Slash \o JoinElems(SubSeq(elems, 2, Len(elems) - 1)))
    ELSE Clean(JoinElems(SubSeq(elems, 1, Len(elems) - 1)))

\* os.Stat on a clean path: the working directory, the root and their
\* ancestors are always there; the others are those of ds.
IsDir(ds, path) ==
    \/ path \in ds
    \/ path = Dot
    \/ path = Slash
    \/ \A i \in 1..Len(SplitOn(path, "/")) : SplitOn(path, "/")[i] = DotDot

\* func (c *Config) create: Exists(""), then os.Mkdir(c.path, ModeDir|0o777).
create(ds, path) ==
    IF IsDir(ds, Clean(path))
    THEN [dirs |-> ds, err |-> "nil"]
    ELSE IF IsDir(ds, Parent(path))
    THEN [dirs |-> ds \cup {path}, err |-> "nil"]
    ELSE [dirs |-> ds, err |-> "ENOENT"]

\* func OpenSpecific.
OpenSpecific(ds, path) ==
    LET p == Clean(path) IN
    IF p = <<>>
    THEN [dirs |-> ds, opened |-> [result |-> "panic", path |-> <<>>]]
    ELSE LET c == create(ds, p) IN
         IF c.err # "nil"
         THEN [dirs |-> c.dirs, opened |-> [result |-> c.err, path |-> <<>>]]
         ELSE [dirs |-> c.dirs, opened |-> [result |-> "Config", path |-> p]]

Call_OpenSpecific ==
    /\ dirs' = OpenSpecific(dirs, arg).dirs
    /\ opened' = OpenSpecific(dirs, arg).opened
    /\ UNCHANGED <<arg, confVars>>

\* Before the call: any path argument, the directory a being there or not.
InitOpen ==
    /\ dirExists = TRUE
    /\ files = [n \in Names |-> Absent]
    /\ defaults = [n \in Names |-> NoDefault]
    /\ closers = <<>>
    /\ openFiles = 0
    /\ held = 0
    /\ last = NoCall
    /\ arg \in Paths
    /\ dirs \in SUBSET { <<"a">> }
    /\ opened = NotOpened

NextOpen == Call_OpenSpecific

SpecOpen == InitOpen /\ [][NextOpen]_vars

\* ----------------------------------------------------------------- claims
ReadOps == {"OpenRead", "OpenReadAuto", "Read", "ReadString", "ReadDecoded"}
WriteOps == {"OpenWrite", "OpenWriteAuto", "Write", "WriteString", "WriteEncoded"}
CreateOps == {"OpenCreate", "OpenCreateAuto", "Create", "CreateString", "CreateEncoded"}
DefaultOps == {"DefaultFunc", "Default", "DefaultString"}
\* The accessors that are no Open call: they open, use and close a file.
BufferOps ==
    {"Read", "ReadString", "ReadDecoded", "Write", "WriteString", "WriteEncoded",
     "Create", "CreateString", "CreateEncoded"}

\* The step is a call of one of ops on the file n.
Called(ops, n) == last'.op \in ops /\ last'.name = n

\* n has a default and is missing from a configuration directory that exists.
Materialises(n) == dirExists /\ ~files[n].exists /\ defaults[n].set

\* C1, as the spec states it: the first Read-family or Write-family access to
\* a missing file with a registered default leaves the file with exactly the
\* registered permission bits and the generator's output as content, and a
\* Read returns the content of the file unchanged.
C1_FirstAccessLeavesDefault ==
    [][ /\ \A n \in Names :
              Materialises(n) /\ Called(ReadOps \cup WriteOps, n)
              => files'[n] = File(defaults[n].data, defaults[n].perm)
        /\ \A n \in Names :
              Called({"Read", "ReadString"}, n) /\ last'.err = "nil"
              => last'.ret = files'[n].content ]_vars

\* C1, amended: the first Read-family or Write-family access to a missing file
\* with a registered default creates the file with exactly the registered
\* permission bits and the generator's output.  After a Read-family access, or
\* when the generator failed, the file holds exactly that output; after a
\* Write-family access whose generator succeeded the file was truncated and
\* holds what the call wrote (nothing for OpenWrite and OpenWriteAuto).  A Read
\* returns the content of the file and leaves it unchanged.
C1_FirstAccessCreatesFromDefault ==
    [][ /\ \A n \in Names :
              Materialises(n) /\ Called(ReadOps \cup WriteOps, n)
              => /\ files'[n].exists
                 /\ files'[n].perm = defaults[n].perm
                 /\ last'.gate = "generated"
                 /\ (last'.op \in ReadOps \/ ~defaults[n].ok)
                        => files'[n].content = defaults[n].data
                 /\ (last'.op \in WriteOps /\ defaults[n].ok)
                        => files'[n].content = last'.arg
        /\ \A n \in Names :
              Called({"Read", "ReadString"}, n) /\ last'.err = "nil"
              => /\ last'.ret = files'[n].content
                 /\ files[n].exists => files'[n] = files[n] ]_vars

\* A Write just materialised the file from its default and replaced the
\* default content by its own.
C1_Witness ==
    /\ last.op = "Write" /\ last.gate = "generated" /\ last.err = "nil"
    /\ files[last.name].content = <<"a">>
    /\ defaults[last.name].data = <<"b", "b">>
    /\ files[last.name].perm = defaults[last.name].perm

\* C2: on a file name that has no registered default and does not exist, every
\* Read-family and Write-family call, the Auto variants included, returns the
\* "does not exist" error and changes neither the directory, nor a file, nor
\* the registry of defaults, nor the tracked closers, nor the open files.
C2_MissingWithoutDefaultFails ==
    [][ \A n \in Names :
          ~Exists(World, n) /\ ~defaults[n].set /\ Called(ReadOps \cup WriteOps, n)
          => /\ last'.err = "does not exist"
             /\ UNCHANGED <<dirExists, files, defaults, closers, openFiles, held>> ]_vars

\* An Auto open failed on a missing file without default, another file being
\* there to be left alone.
C2_Witness ==
    /\ last.op \in {"OpenReadAuto", "OpenWriteAuto"}
    /\ last.err = "does not exist"
    /\ ~files[last.name].exists
    /\ \E m \in Names : files[m].exists

\* C3: on a file name that exists, every Create-family call returns an error
\* and leaves every file as it was; OpenCreateAuto adds nothing to the tracked
\* closers (no Create-family call does).
C3_CreateOnExistingFails ==
    [][ \A n \in Names :
          Exists(World, n) /\ Called(CreateOps, n)
          => /\ last'.err = "EEXIST"
             /\ UNCHANGED <<dirExists, files, closers, openFiles, held>> ]_vars

\* OpenCreateAuto was refused on a file that holds content.
C3_Witness ==
    /\ last.op = "OpenCreateAuto" /\ last.err = "EEXIST"
    /\ files[last.name].exists /\ files[last.name].content # <<>>

\* The tracked files that are closed.
Closed(cs) == {i \in 1..Len(cs) : ~cs[i].open}

\* C4: with N files tracked, M of them closed already, Close closes all N,
\* returns exactly M errors and leaves none of the N open; the tracked list
\* keeps its N entries.
C4_CloseSweepsAll ==
    [][ last'.op = "Close"
        => /\ Len(last'.ret) = Cardinality(Closed(closers))
           /\ Len(closers') = Len(closers)
           /\ Closed(closers') = 1..Len(closers)
           /\ last'.err = "nil" ]_vars

\* Close ran over two tracked files, one of which the caller had closed.
C4_Witness ==
    /\ last.op = "Close" /\ Len(closers) = 2 /\ Len(last.ret) = 1
    /\ Closed(closers) = {1, 2}

\* C5: every accessor that is no Open call closes every file it opened before
\* it returns, on success and on failure: the open files and the tracked
\* closers after the call are those before it.
C5_BufferOpsCloseWhatTheyOpen ==
    [][ last'.op \in BufferOps
        => openFiles' = openFiles /\ held' = held /\ closers' = closers ]_vars

\* C6: a DeleteFile(name) that returns nil leaves the named file absent, the
\* configuration directory as it was and every other file unchanged.
C6_DeleteFileRemovesOnlyTheFile ==
    [][ \A n \in Names :
          Called({"DeleteFile"}, n) /\ last'.err = "nil"
          => /\ ~files'[n].exists
             /\ dirExists' = dirExists
             /\ \A m \in Names \ {n} : files'[m] = files[m] ]_vars

\* C8: a name has at most one default: DefaultFunc, Default and DefaultString
\* on a name that has a default panic, and no call removes or replaces a
\* registered default (generator and permission bits stay).
C8_DefaultsAreKept ==
    [][ /\ \A n \in Names : defaults[n].set => defaults'[n] = defaults[n]
        /\ \A n \in Names :
              Called(DefaultOps, n)
              => last'.err = (IF defaults[n].set THEN "panic" ELSE "nil") ]_vars

\* A registration on a name that has a default panicked.
C8_Witness ==
    /\ last.op \in DefaultOps /\ last.err = "panic"
    /\ defaults[last.name].set

\* C10: when a Read-family or Write-family access materialises a missing file
\* and the generator fails, the access returns the generator's error, opens
\* nothing but the file it created (and returns or tracks none), and the file
\* stays, holding what the generator wrote.  The generator runs only on a
\* missing file and leaves it present; an access to a present file runs no
\* generator; a present file stays through every call but Delete and
\* DeleteFile.
C10_GeneratorRunsOncePerAbsence ==
    [][ /\ \A n \in Names :
              Materialises(n) /\ ~defaults[n].ok /\ Called(ReadOps \cup WriteOps, n)
              => /\ last'.err = "generr"
                 /\ files'[n] = File(defaults[n].data, defaults[n].perm)
                 /\ openFiles' = openFiles + 1
                 /\ held' = held /\ closers' = closers
        /\ \A n \in Names :
              Called(ReadOps \cup WriteOps, n)
              => /\ last'.gate = "generated" => ~Exists(World, n) /\ files'[n].exists
                 /\ Exists(World, n) => last'.gate = "present" /\ files'[n].exists
        /\ \A n \in Names :
              files[n].exists /\ last'.op \notin {"Delete", "DeleteFile"}
              => files'[n].exists ]_vars

\* After a failed generator left the file behind, a Read found it present and
\* returned what the generator had written.
C10_Witness ==
    /\ last.op = "Read" /\ last.gate = "present" /\ last.err = "nil"
    /\ defaults[last.name].set /\ ~defaults[last.name].ok
    /\ last.ret = defaults[last.name].data
\* Records that all have the same number of fields, one at least, none of
\* them being a single empty field.
Rectangular(records) ==
    /\ \A i \in 1..Len(records) : Len(records[i]) = Len(records[1])
    /\ \A i \in 1..Len(records) : Len(records[i]) > 0 /\ records[i] # << <<>> >>

C7_EmptyPathPanics ==
    (arg = <<>> /\ opened.result # "none")
    => opened.result = "panic" /\ opened.path = <<>>
====
